---- MODULE Spec2Model ----
(***************************************************************************)
(* Toxicity & PII early-warning cascade: src/src/overrides.py,             *)
(* src/src/text_normalize.py, src/src/pii.py and src/app_streamlit.py.     *)
(*                                                                         *)
(* A text is a sequence of one-character strings.  Offsets into a text are *)
(* Python's: 0-based, spans (start, end) half-open.  A probability is an   *)
(* integer number of hundredths (0.01 is 1, 0.60 is 60).                   *)
(***************************************************************************)
EXTENDS Integers, Sequences, FiniteSets, TLC

VARIABLES
    pc,         \* harness of a single function call: "call" before, "done" after
    args,       \* the arguments of the function under study
    ret,        \* its return value
    phonenumbers, \* pii.phonenumbers: "None" when the import failed, else how the
                  \* library judges a candidate: "accepts" or "rejects"
    has_bert,   \* ARTIFACTS["has_bert"]
    POLICY,     \* ARTIFACTS["policy"]: the thresholds high, medium, low
    comments,   \* the Analyze run: the stripped, non-empty lines of the input
    oracle,     \* the Analyze run: what the classifiers answer for each comment
    results     \* the Analyze run: the scores collected so far

\* the application when no Analyze run is under way
app == <<has_bert, POLICY, comments, oracle, results>>
AppIdle ==
    /\ has_bert = FALSE
    /\ POLICY = [high |-> 90, medium |-> 60, low |-> 30]
    /\ comments = <<>>
    /\ oracle = <<>>
    /\ results = <<>>

others == <<phonenumbers, app>>
vars == <<pc, args, ret, phonenumbers, app>>

(***************************************************************************)
(* Characters and the part of Python's re the patterns use.                *)
(***************************************************************************)
LowerLetters == {"a","b","c","d","e","f","g","h","i","j","k","l","m",
                 "n","o","p","q","r","s","t","u","v","w","x","y","z"}
UpperLetters == {"A","B","C","D","E","F","G","H","I","J","K","L","M",
                 "N","O","P","Q","R","S","T","U","V","W","X","Y","Z"}
Digits == {"0","1","2","3","4","5","6","7","8","9"}
Letters == LowerLetters \cup UpperLetters
\* \w
WordChars == Letters \cup Digits \cup {"_"}
\* \s
Whitespace == {" ", "\t", "\n"}
\* in a pattern literal: one character of class \s
WS == "\\s"

\* str.lower() on one character
LowerOf == [c \in UpperLetters |->
    CASE c = "A" -> "a" [] c = "B" -> "b" [] c = "C" -> "c" [] c = "D" -> "d"
      [] c = "E" -> "e" [] c = "F" -> "f" [] c = "G" -> "g" [] c = "H" -> "h"
      [] c = "I" -> "i" [] c = "J" -> "j" [] c = "K" -> "k" [] c = "L" -> "l"
      [] c = "M" -> "m" [] c = "N" -> "n" [] c = "O" -> "o" [] c = "P" -> "p"
      [] c = "Q" -> "q" [] c = "R" -> "r" [] c = "S" -> "s" [] c = "T" -> "t"
      [] c = "U" -> "u" [] c = "V" -> "v" [] c = "W" -> "w" [] c = "X" -> "x"
      [] c = "Y" -> "y" [] c = "Z" -> "z"]
LowerChar(c) == IF c \in UpperLetters THEN LowerOf[c] ELSE c

Lower(s) == [i \in 1..Len(s) |-> LowerChar(s[i])]

\* s[a:b] for 0 <= a, b <= len(s); empty when b <= a
Slice(s, a, b) == SubSeq(s, a + 1, b)

\* \b at offset p: exactly one of the two neighbours is a word character
Boundary(s, p) ==
    (p > 0 /\ s[p] \in WordChars) # (p < Len(s) /\ s[p + 1] \in WordChars)

\* pattern nodes
Lit(s) == [t |-> "lit", s |-> s, xs |-> <<>>]
Cat(xs) == [t |-> "cat", s |-> <<>>, xs |-> xs]
Or(xs) == [t |-> "or", s |-> <<>>, xs |-> xs]
B == [t |-> "b", s |-> <<>>, xs |-> <<>>]
\* .*? (the dot does not match a newline)
Gap == [t |-> "gap", s |-> <<>>, xs |-> <<>>]
\* \s and \s?
S1 == Lit(<<WS>>)
OptS == Or(<<Lit(<<>>), S1>>)

CharMatch(c, l) == IF l = WS THEN c \in Whitespace ELSE c = l

LitAt(s, p, l) ==
    /\ p + Len(l) <= Len(s)
    /\ \A k \in 1..Len(l) : CharMatch(s[p + k], l[k])

\* The offsets at which a match of node n can end when it starts at an offset of P.
RECURSIVE Ends(_, _, _)
RECURSIVE EndsCat(_, _, _, _)
Ends(n, s, P) ==
    CASE n.t = "lit" -> {p + Len(n.s) : p \in {q \in P : LitAt(s, q, n.s)}}
      [] n.t = "b" -> {p \in P : Boundary(s, p)}
      [] n.t = "gap" -> {q \in 0..Len(s) : \E p \in P :
                            p <= q /\ \A k \in (p + 1)..q : s[k] # "\n"}
      [] n.t = "or" -> UNION {Ends(n.xs[i], s, P) : i \in DOMAIN n.xs}
      [] n.t = "cat" -> EndsCat(n.xs, 1, s, P)
EndsCat(xs, k, s, P) ==
    IF k > Len(xs) \/ P = {} THEN P
    ELSE EndsCat(xs, k + 1, s, Ends(xs[k], s, P))

\* pattern.search(text) is not None
Search(pattern, text) ==
    LET s == IF pattern.ci THEN Lower(text) ELSE text
    IN Ends(pattern.re, s, 0..Len(s)) # {}

\* re.compile(..., re.IGNORECASE) and re.compile(...)
ReI(n) == [ci |-> TRUE, re |-> n]
Re(n) == [ci |-> FALSE, re |-> n]

(***************************************************************************)
(* src/src/overrides.py                                                    *)
(***************************************************************************)
Pronoun == Or(<<Lit(<<"y","o","u">>), Lit(<<"h","e">>), Lit(<<"s","h","e">>), Lit(<<"t","h","e","y">>)>>)
Wish == Or(<<Lit(<<"i"," ","w","i","s","h">>), Lit(<<"h","o","p","e">>)>>)

THREAT_PATTERNS == <<
    \* \b(i wish|hope)\s(you|he|she|they)\s(die|dies|died)\b
    ReI(Cat(<<B, Wish, S1, Pronoun, S1,
              Or(<<Lit(<<"d","i","e">>), Lit(<<"d","i","e","s">>), Lit(<<"d","i","e","d">>)>>), B>>)),
    \* \b(kill\syour\s?self|k\s?y\s?s)\b
    ReI(Cat(<<B, Or(<<Cat(<<Lit(<<"k","i","l","l",WS,"y","o","u","r">>), OptS, Lit(<<"s","e","l","f">>)>>),
                      Cat(<<Lit(<<"k">>), OptS, Lit(<<"y">>), OptS, Lit(<<"s">>)>>)>>), B>>)) >>

OBSCENE_PATTERNS == <<
    \* \b(his|my|your)\s(third|3rd)\s(leg)\b
    ReI(Cat(<<B, Or(<<Lit(<<"h","i","s">>), Lit(<<"m","y">>), Lit(<<"y","o","u","r">>)>>), S1,
              Or(<<Lit(<<"t","h","i","r","d">>), Lit(<<"3","r","d">>)>>), S1, Lit(<<"l","e","g">>), B>>)) >>

INSULT_PATTERNS == <<
    \* \b(i wish|hope)\s(you|he|she|they)\b.*?\b(humiliating|fail|suffer)\b
    ReI(Cat(<<B, Wish, S1, Pronoun, B, Gap, B,
              Or(<<Lit(<<"h","u","m","i","l","i","a","t","i","n","g">>), Lit(<<"f","a","i","l">>), Lit(<<"s","u","f","f","e","r">>)>>), B>>)),
    \* \b(idiot|moron|stupid|dumb|loser|pathetic|bitch|fuck)\b
    ReI(Cat(<<B, Or(<<Lit(<<"i","d","i","o","t">>), Lit(<<"m","o","r","o","n">>), Lit(<<"s","t","u","p","i","d">>), Lit(<<"d","u","m","b">>),
                      Lit(<<"l","o","s","e","r">>), Lit(<<"p","a","t","h","e","t","i","c">>), Lit(<<"b","i","t","c","h">>), Lit(<<"f","u","c","k">>)>>), B>>)) >>

PASSIVE_AGGRESSIVE_PATTERNS == <<
    \* (?:bless\syour\s(little\s)?heart)
    ReI(Cat(<<Lit(<<"b","l","e","s","s",WS,"y","o","u","r",WS>>), Or(<<Lit(<<>>), Lit(<<"l","i","t","t","l","e",WS>>)>>), Lit(<<"h","e","a","r","t">>)>>)),
    \* (?:i'm\ssure\syou\sthink)
    ReI(Lit(<<"i","'","m",WS,"s","u","r","e",WS,"y","o","u",WS,"t","h","i","n","k">>)),
    \* (?:must\sbe\snice\sto\sbe)
    ReI(Lit(<<"m","u","s","t",WS,"b","e",WS,"n","i","c","e",WS,"t","o",WS,"b","e">>)) >>

DOG_WHISTLE_PATTERNS == <<
    \* \b(13/52|13/90)\b   (case-sensitive)
    Re(Cat(<<B, Or(<<Lit(<<"1","3","/","5","2">>), Lit(<<"1","3","/","9","0">>)>>), B>>)),
    \* \b(globalist\sagenda)\b
    ReI(Cat(<<B, Lit(<<"g","l","o","b","a","l","i","s","t",WS,"a","g","e","n","d","a">>), B>>)) >>

GLORIFICATION_PATTERNS == <<
    \* \b(got\swhat\s(he|she|they)\sdeserved)\b
    ReI(Cat(<<B, Lit(<<"g","o","t",WS,"w","h","a","t",WS>>), Or(<<Lit(<<"h","e">>), Lit(<<"s","h","e">>), Lit(<<"t","h","e","y">>)>>),
              Lit(<<WS,"d","e","s","e","r","v","e","d">>), B>>)),
    \* \b(is\sa\shero\sfor\swhat\s(he|she)\sdid)\b
    ReI(Cat(<<B, Lit(<<"i","s",WS,"a",WS,"h","e","r","o",WS,"f","o","r",WS,"w","h","a","t",WS>>), Or(<<Lit(<<"h","e">>), Lit(<<"s","h","e">>)>>),
              Lit(<<WS,"d","i","d">>), B>>)) >>

SUBTLE_THREAT_PATTERNS == <<
    \* \b(world\swould\sbe\sbetter\swithout\syou)\b
    ReI(Cat(<<B, Lit(<<"w","o","r","l","d",WS,"w","o","u","l","d",WS,"b","e",WS,"b","e","t","t","e","r",WS,"w","i","t","h","o","u","t",WS,"y","o","u">>), B>>)),
    \* \b(nobody\swould\seven\snotice\sif\syou\swere\sgone)\b
    ReI(Cat(<<B, Lit(<<"n","o","b","o","d","y",WS,"w","o","u","l","d",WS,"e","v","e","n",WS,"n","o","t","i","c","e",WS,"i","f",WS,"y","o","u",WS,"w","e","r","e",WS,"g","o","n","e">>), B>>)) >>

IDENTITY_ATTACK_PATTERNS == <<
    \* \b(of\scourse\sa\s(woman|man)\swould)\b
    ReI(Cat(<<B, Lit(<<"o","f",WS,"c","o","u","r","s","e",WS,"a",WS>>), Or(<<Lit(<<"w","o","m","a","n">>), Lit(<<"m","a","n">>)>>),
              Lit(<<WS,"w","o","u","l","d">>), B>>)),
    \* \b(typical\s(french|american|german|etc)\sbehavior)\b
    ReI(Cat(<<B, Lit(<<"t","y","p","i","c","a","l",WS>>),
              Or(<<Lit(<<"f","r","e","n","c","h">>), Lit(<<"a","m","e","r","i","c","a","n">>), Lit(<<"g","e","r","m","a","n">>), Lit(<<"e","t","c">>)>>),
              Lit(<<WS,"b","e","h","a","v","i","o","r">>), B>>)) >>

SPAM_PATTERNS == <<
    \* \b(free\sfollowers|buy\sfollwers|crypto\sgains)\b
    ReI(Cat(<<B, Or(<<Lit(<<"f","r","e","e",WS,"f","o","l","l","o","w","e","r","s">>), Lit(<<"b","u","y",WS,"f","o","l","l","w","e","r","s">>),
                      Lit(<<"c","r","y","p","t","o",WS,"g","a","i","n","s">>)>>), B>>)),
    \* (bit\.ly/|tinyurl\.com/)
    ReI(Or(<<Lit(<<"b","i","t",".","l","y","/">>), Lit(<<"t","i","n","y","u","r","l",".","c","o","m","/">>)>>)) >>

BLOCKLIST_PATTERNS ==
    THREAT_PATTERNS \o OBSCENE_PATTERNS \o INSULT_PATTERNS \o
    PASSIVE_AGGRESSIVE_PATTERNS \o DOG_WHISTLE_PATTERNS \o
    GLORIFICATION_PATTERNS \o SUBTLE_THREAT_PATTERNS \o
    IDENTITY_ATTACK_PATTERNS \o SPAM_PATTERNS

NEGATIVE_VERBS ==
    Or(<<Lit(<<"k","i","l","l","e","d">>), Lit(<<"d","e","a","d">>), Lit(<<"d","e","s","t","r","o","y","e","d">>), Lit(<<"a","t","t","a","c","k","e","d">>),
         Lit(<<"s","h","o","t">>), Lit(<<"p","o","i","s","o","n">>), Lit(<<"c","a","n","c","e","r">>), Lit(<<"d","i","s","e","a","s","e">>)>>)
HARMLESS_OBJECTS ==
    Or(<<Lit(<<"p","l","a","n","t">>), Lit(<<"b","a","t","t","e","r","y">>), Lit(<<"p","h","o","n","e">>), Lit(<<"c","a","r">>), Lit(<<"g","a","m","e">>),
         Lit(<<"s","e","r","v","e","r">>), Lit(<<"c","o","m","p","u","t","e","r">>), Lit(<<"p","r","o","c","e","s","s">>), Lit(<<"t","a","s","k">>), Lit(<<"j","o","b">>),
         Lit(<<"e","n","g","i","n","e">>), Lit(<<"u","i">>), Lit(<<"f","e","a","t","u","r","e">>), Lit(<<"l","o","g","i","c">>)>>)

META_PATTERNS == <<
    \* \b(words\slike|the\sword|saying)\s(bitch|fuck|idiot|stupid)\b
    ReI(Cat(<<B, Or(<<Lit(<<"w","o","r","d","s",WS,"l","i","k","e">>), Lit(<<"t","h","e",WS,"w","o","r","d">>), Lit(<<"s","a","y","i","n","g">>)>>), S1,
              Or(<<Lit(<<"b","i","t","c","h">>), Lit(<<"f","u","c","k">>), Lit(<<"i","d","i","o","t">>), Lit(<<"s","t","u","p","i","d">>)>>), B>>)) >>

GENERAL_SAFELIST_PATTERNS == <<
    \* \b(my\s)?NEGATIVE_VERBS(\smy)?\sHARMLESS_OBJECTS\b
    ReI(Cat(<<B, Or(<<Lit(<<>>), Lit(<<"m","y",WS>>)>>), NEGATIVE_VERBS,
              Or(<<Lit(<<>>), Lit(<<WS,"m","y">>)>>), S1, HARMLESS_OBJECTS, B>>)),
    \* \b(the\s)?HARMLESS_OBJECTS(\sis|\swas)?\s(dead|died)\b
    ReI(Cat(<<B, Or(<<Lit(<<>>), Lit(<<"t","h","e",WS>>)>>), HARMLESS_OBJECTS,
              Or(<<Lit(<<>>), Lit(<<WS,"i","s">>), Lit(<<WS,"w","a","s">>)>>), S1,
              Or(<<Lit(<<"d","e","a","d">>), Lit(<<"d","i","e","d">>)>>), B>>)),
    \* \b(kill the|killing the)\s(process|job|server|task)\b
    ReI(Cat(<<B, Or(<<Lit(<<"k","i","l","l"," ","t","h","e">>), Lit(<<"k","i","l","l","i","n","g"," ","t","h","e">>)>>), S1,
              Or(<<Lit(<<"p","r","o","c","e","s","s">>), Lit(<<"j","o","b">>), Lit(<<"s","e","r","v","e","r">>), Lit(<<"t","a","s","k">>)>>), B>>)),
    \* \b(this|your)\sHARMLESS_OBJECTS\s(is|is\san)\s(absolute\s)?(cancer|poison|disease)\b
    ReI(Cat(<<B, Or(<<Lit(<<"t","h","i","s">>), Lit(<<"y","o","u","r">>)>>), S1, HARMLESS_OBJECTS, S1,
              Or(<<Lit(<<"i","s">>), Lit(<<"i","s",WS,"a","n">>)>>), S1,
              Or(<<Lit(<<>>), Lit(<<"a","b","s","o","l","u","t","e",WS>>)>>),
              Or(<<Lit(<<"c","a","n","c","e","r">>), Lit(<<"p","o","i","s","o","n">>), Lit(<<"d","i","s","e","a","s","e">>)>>), B>>)) >>

\* for pattern in patterns: if pattern.search(text): ...
AnyMatch(patterns, text) == \E i \in DOMAIN patterns : Search(patterns[i], text)

\* apply_overrides with the blocklist consulted before the meta-discussion patterns
apply_overrides_BlocklistFirst(text, original_prob, original_tier) ==
    IF AnyMatch(BLOCKLIST_PATTERNS, text) THEN <<99, "OVERRIDE_TOXIC">>
    ELSE IF AnyMatch(META_PATTERNS, text) THEN <<1, "OVERRIDE_SAFE">>
    ELSE IF original_tier \in {"MEDIUM", "HIGH"}
            /\ AnyMatch(GENERAL_SAFELIST_PATTERNS, text) THEN <<1, "OVERRIDE_SAFE">>
    ELSE <<original_prob, original_tier>>

\* apply_overrides with the whole safelist (SAFELIST_PATTERNS) consulted first
apply_overrides_SafelistFirst(text, original_prob, original_tier) ==
    IF AnyMatch(META_PATTERNS, text) THEN <<1, "OVERRIDE_SAFE">>
    ELSE IF original_tier \in {"MEDIUM", "HIGH"}
            /\ AnyMatch(GENERAL_SAFELIST_PATTERNS, text) THEN <<1, "OVERRIDE_SAFE">>
    ELSE IF AnyMatch(BLOCKLIST_PATTERNS, text) THEN <<99, "OVERRIDE_TOXIC">>
    ELSE <<original_prob, original_tier>>

\* apply_overrides with the general safelist consulted at every incoming tier
apply_overrides_SafelistAnyTier(text, original_prob, original_tier) ==
    IF AnyMatch(META_PATTERNS, text) THEN <<1, "OVERRIDE_SAFE">>
    ELSE IF AnyMatch(BLOCKLIST_PATTERNS, text) THEN <<99, "OVERRIDE_TOXIC">>
    ELSE IF AnyMatch(GENERAL_SAFELIST_PATTERNS, text) THEN <<1, "OVERRIDE_SAFE">>
    ELSE <<original_prob, original_tier>>

apply_overrides(text, original_prob, original_tier) ==
    IF AnyMatch(META_PATTERNS, text) THEN <<1, "OVERRIDE_SAFE">>
    ELSE IF AnyMatch(BLOCKLIST_PATTERNS, text) THEN <<99, "OVERRIDE_TOXIC">>
    ELSE IF original_tier \in {"MEDIUM", "HIGH"}
            /\ AnyMatch(GENERAL_SAFELIST_PATTERNS, text) THEN <<1, "OVERRIDE_SAFE">>
    ELSE <<original_prob, original_tier>>

(***************************************************************************)
(* Inputs of apply_overrides: up to MaxPhrases phrases joined by a space.  *)
(***************************************************************************)
MaxPhrases == 2

\* phrases joined with each other in every order
OverridePhrases == {
    <<"t","h","e"," ","w","o","r","d"," ","b","i","t","c","h">>, <<"k","i","l","l","e","d"," ","m","y"," ","p","l","a","n","t">>, <<"i","d","i","o","t">>, <<"k","i","l","l"," ","t","h","e"," ","s","e","r","v","e","r">>, <<"n","i","c","e">> }

\* one sample per rule, and near misses
RuleSamples == {
    <<"i"," ","w","i","s","h"," ","h","e"," ","d","i","e","s">>, <<"K","Y","S">>, <<"k","i","l","l"," ","y","o","u","r"," ","s","e","l","f">>, <<"m","y"," ","3","r","d"," ","l","e","g">>, <<"h","o","p","e"," ","y","o","u"," ","f","a","i","l">>,
    <<"i"," ","w","i","s","h"," ","t","h","e","y"," ","w","o","u","l","d"," ","n","o","t"," ","s","u","f","f","e","r">>, <<"S","t","u","p","i","d">>, <<"b","i","t","c","h",",","f","u","c","k">>, <<"i","d","i","o","t","s">>,
    <<"b","l","e","s","s"," ","y","o","u","r"," ","h","e","a","r","t","s">>, <<"i","'","m"," ","s","u","r","e"," ","y","o","u"," ","t","h","i","n","k">>, <<"m","u","s","t"," ","b","e"," ","n","i","c","e"," ","t","o"," ","b","e">>,
    <<"1","3","/","5","2">>, <<"g","l","o","b","a","l","i","s","t"," ","a","g","e","n","d","a">>, <<"g","o","t"," ","w","h","a","t"," ","h","e"," ","d","e","s","e","r","v","e","d">>,
    <<"i","s"," ","a"," ","h","e","r","o"," ","f","o","r"," ","w","h","a","t"," ","s","h","e"," ","d","i","d">>, <<"w","o","r","l","d"," ","w","o","u","l","d"," ","b","e"," ","b","e","t","t","e","r"," ","w","i","t","h","o","u","t"," ","y","o","u">>,
    <<"n","o","b","o","d","y"," ","w","o","u","l","d"," ","e","v","e","n"," ","n","o","t","i","c","e"," ","i","f"," ","y","o","u"," ","w","e","r","e"," ","g","o","n","e">>, <<"o","f"," ","c","o","u","r","s","e"," ","a"," ","m","a","n"," ","w","o","u","l","d">>,
    <<"t","y","p","i","c","a","l"," ","e","t","c"," ","b","e","h","a","v","i","o","r">>, <<"f","r","e","e"," ","f","o","l","l","o","w","e","r","s">>, <<"s","e","e"," ","b","i","t",".","l","y","/","x">>,
    <<"w","o","r","d","s"," ","l","i","k","e"," ","f","u","c","k">>, <<"S","a","y","i","n","g"," ","s","t","u","p","i","d">>, <<"s","a","y","i","n","g"," ","s","t","u","p","i","d","l","y">>, <<"t","h","e"," ","w","o","r","d","s"," ","b","i","t","c","h">>,
    <<"m","y"," ","b","a","t","t","e","r","y"," ","i","s"," ","d","e","a","d">>, <<"t","h","i","s"," ","u","i"," ","i","s"," ","a","n"," ","a","b","s","o","l","u","t","e"," ","c","a","n","c","e","r">>, <<"k","i","l","l","i","n","g"," ","t","h","e"," ","j","o","b">>,
    <<"y","o","u"," ","k","i","l","l","e","d"," ","h","i","m">>, <<"h","a","v","e"," ","a"," ","n","i","c","e"," ","d","a","y","!">> }

RECURSIVE Joined(_, _)
Joined(P, n) ==
    IF n = 0 THEN {}
    ELSE P \cup {a \o <<" ">> \o b : a \in Joined(P, n - 1), b \in P}

OverrideTexts ==
    Joined(OverridePhrases, MaxPhrases) \cup RuleSamples
        \cup {r \o <<" ","k","i","l","l","e","d"," ","m","y"," ","p","l","a","n","t">> : r \in RuleSamples}
OverrideProbs == {1, 37, 99}
Tiers == {"VERY_LOW", "LOW", "MEDIUM", "HIGH"}
OverrideTiers == Tiers \cup {"OVERRIDE_SAFE", "OVERRIDE_TOXIC", "UNKNOWN"}

InitOverrides ==
    /\ pc = "call"
    /\ args \in [text : OverrideTexts, original_prob : OverrideProbs,
                 original_tier : OverrideTiers]
    /\ ret = <<>>
    /\ phonenumbers = "None"
    /\ AppIdle

CallApplyOverrides ==
    /\ pc = "call"
    /\ ret' = apply_overrides(args.text, args.original_prob, args.original_tier)
    /\ pc' = "done"
    /\ UNCHANGED <<args, others>>

NextOverrides == CallApplyOverrides

SpecOverrides == InitOverrides /\ [][NextOverrides]_vars

(***************************************************************************)
(* Claims about apply_overrides (SpecOverrides).                           *)
(***************************************************************************)
BlocklistCategories ==
    <<THREAT_PATTERNS, OBSCENE_PATTERNS, INSULT_PATTERNS, PASSIVE_AGGRESSIVE_PATTERNS,
      DOG_WHISTLE_PATTERNS, GLORIFICATION_PATTERNS, SUBTLE_THREAT_PATTERNS,
      IDENTITY_ATTACK_PATTERNS, SPAM_PATTERNS>>

MetaMatches == AnyMatch(META_PATTERNS, args.text)
BlocklistMatches == \E c \in DOMAIN BlocklistCategories :
                        AnyMatch(BlocklistCategories[c], args.text)
SafelistMatches == AnyMatch(GENERAL_SAFELIST_PATTERNS, args.text)

\* C1: whenever a meta-discussion pattern matches the text, apply_overrides returns
\* exactly (0.01, OVERRIDE_SAFE), whatever the incoming probability and tier and
\* whether or not a blocklist pattern matches too.
C1_MetaBeforeBlocklist ==
    (pc = "done" /\ MetaMatches) => ret = <<1, "OVERRIDE_SAFE">>

C1_Witness ==
    /\ pc = "done"
    /\ MetaMatches /\ BlocklistMatches
    /\ args.original_tier = "HIGH" /\ args.original_prob = 99
    /\ ret = <<1, "OVERRIDE_SAFE">>

\* C2: when no meta-discussion pattern matches and a pattern of any of the nine
\* blocklist categories matches, apply_overrides returns exactly (0.99, OVERRIDE_TOXIC),
\* whatever the incoming probability and tier, also when the general safelist matches.
C2_BlocklistTerminal ==
    \A c \in DOMAIN BlocklistCategories :
        (pc = "done" /\ ~MetaMatches /\ AnyMatch(BlocklistCategories[c], args.text))
            => ret = <<99, "OVERRIDE_TOXIC">>

C2_Witness ==
    /\ pc = "done"
    /\ ~MetaMatches /\ BlocklistMatches /\ SafelistMatches
    /\ args.original_tier = "MEDIUM" /\ args.original_prob = 1
    /\ ret = <<99, "OVERRIDE_TOXIC">>

\* C3: when neither a meta-discussion nor a blocklist pattern matches, the result is
\* (0.01, OVERRIDE_SAFE) if the incoming tier is MEDIUM or HIGH and a general-safelist
\* pattern matches, and the incoming (probability, tier) unchanged in every other case;
\* so an input that was not already (0.01, OVERRIDE_SAFE) comes out as it only by the
\* general safelist.
C3_SafelistGatedByTier ==
    (pc = "done" /\ ~MetaMatches /\ ~BlocklistMatches) =>
        LET fires == args.original_tier \in {"MEDIUM", "HIGH"} /\ SafelistMatches
            same == <<args.original_prob, args.original_tier>>
        IN /\ fires => ret = <<1, "OVERRIDE_SAFE">>
           /\ ~fires => ret = same
           /\ (ret = <<1, "OVERRIDE_SAFE">> /\ same # ret) => fires

C3_Witness ==
    /\ pc = "done"
    /\ ~MetaMatches /\ ~BlocklistMatches /\ SafelistMatches
    /\ args.original_tier = "VERY_LOW" /\ args.original_prob = 37
    /\ ret = <<37, "VERY_LOW">>

\* the same text at tier MEDIUM is forced safe
C3_WitnessFires ==
    /\ pc = "done"
    /\ ~MetaMatches /\ ~BlocklistMatches /\ SafelistMatches
    /\ args.original_tier = "MEDIUM" /\ ret = <<1, "OVERRIDE_SAFE">>

(***************************************************************************)
(* src/src/text_normalize.py                                               *)
(***************************************************************************)
\* U+200B ZERO WIDTH SPACE and U+1F525 (the emoji named "fire"), as one character each
ZWSP == "\\u200b"
EMOJI == "\\U0001f525"

ZERO_WIDTH == {ZWSP}

LEET_MAP(c) ==
    CASE c = "0" -> "o" [] c = "1" -> "i" [] c = "3" -> "e" [] c = "4" -> "a"
      [] c = "5" -> "s" [] c = "7" -> "t" [] c = "$" -> "s" [] c = "@" -> "a"
      [] c = "!" -> "i" [] OTHER -> c

\* the number of characters equal to s[i] from index i on (1-based)
RECURSIVE RunLength(_, _)
RunLength(s, i) ==
    IF i < Len(s) /\ s[i + 1] = s[i] THEN 1 + RunLength(s, i + 1) ELSE 1

\* re.sub(r"(.)\1{2,}", r"\1\1", s), from index i on
RECURSIVE CollapseRepeats(_, _)
CollapseRepeats(s, i) ==
    IF i > Len(s) THEN <<>>
    ELSE IF s[i] # "\n" /\ RunLength(s, i) >= 3
         THEN <<s[i], s[i]>> \o CollapseRepeats(s, i + RunLength(s, i))
         ELSE <<s[i]>> \o CollapseRepeats(s, i + 1)

\* emoji.replace_emoji(s, replace=lambda ch, _: f" {emoji.demojize(ch)} ")
RECURSIVE ReplaceEmoji(_)
ReplaceEmoji(s) ==
    IF s = <<>> THEN <<>>
    ELSE (IF Head(s) = EMOJI THEN <<" ",":","f","i","r","e",":"," ">> ELSE <<Head(s)>>) \o ReplaceEmoji(Tail(s))

\* [a-z0-9\s:,_\-\.\!\?@#\$%]
KeptChars ==
    LowerLetters \cup Digits \cup Whitespace \cup
    {":", ",", "_", "-", ".", "!", "?", "@", "#", "$", "%"}

\* s.split(): the maximal runs of non-whitespace characters
RECURSIVE Split(_, _)
Split(s, word) ==
    IF s = <<>> THEN (IF word = <<>> THEN <<>> ELSE <<word>>)
    ELSE IF Head(s) \in Whitespace
         THEN (IF word = <<>> THEN <<>> ELSE <<word>>) \o Split(Tail(s), <<>>)
         ELSE Split(Tail(s), Append(word, Head(s)))

\* " ".join(words)
RECURSIVE Join(_)
Join(words) ==
    IF words = <<>> THEN <<>>
    ELSE IF Len(words) = 1 THEN words[1]
    ELSE words[1] \o <<" ">> \o Join(Tail(words))

SelectSeqNot(s, drop) ==
    LET Keep(c) == c \notin drop IN SelectSeq(s, Keep)

normalize_text(s) ==
    LET \* 1., 2.  ftfy.fix_text and NFKC leave every character of the texts used here as it is
        s2 == s
        \* 3.  s.translate(ZERO_WIDTH)
        s3 == SelectSeqNot(s2, ZERO_WIDTH)
        \* 4.  s.lower()
        s4 == Lower(s3)
        \* 5.
        s5 == CollapseRepeats(s4, 1)
        \* 6.
        s6 == ReplaceEmoji(s5)
        \* 7.  s.translate(LEET_MAP)
        s7 == [i \in 1..Len(s6) |-> LEET_MAP(s6[i])]
        \* 8.  re.sub(r"[^a-z0-9\s:,_\-\.\!\?@#\$%]", " ", s)
        s8 == [i \in 1..Len(s7) |-> IF s7[i] \in KeptChars THEN s7[i] ELSE " "]
        \* 9.  " ".join(s.split())
    IN Join(Split(s8, <<>>))

(***************************************************************************)
(* Inputs of normalize_text: every string of up to MaxNormLen characters   *)
(* of NormChars.                                                           *)
(***************************************************************************)
MaxNormLen == 4
NormChars == {"a", "O", "0", "!", "~", " ", ZWSP, EMOJI}

RECURSIVE StringsUpTo(_, _)
StringsUpTo(C, n) ==
    IF n = 0 THEN {<<>>}
    ELSE LET shorter == StringsUpTo(C, n - 1)
         IN shorter \cup {Append(x, c) : x \in shorter, c \in C}

InitNormalize ==
    /\ pc = "call"
    /\ args \in [s : StringsUpTo(NormChars, MaxNormLen)]
    /\ ret = <<>>
    /\ phonenumbers = "None"
    /\ AppIdle

CallNormalize ==
    /\ pc = "call"
    /\ ret' = normalize_text(args.s)
    /\ pc' = "done"
    /\ UNCHANGED <<args, others>>

\* normalize_text applied to its own output
CallNormalizeAgain ==
    /\ pc = "done"
    /\ args' = [s |-> ret]
    /\ ret' = normalize_text(ret)
    /\ pc' = "again"
    /\ UNCHANGED others

NextNormalize == CallNormalize \/ CallNormalizeAgain

SpecNormalize == InitNormalize /\ [][NextNormalize]_vars

\* C6: normalize_text is idempotent: applied to its own output it returns that output.
C6_Idempotent == pc = "again" => ret = args.s

(***************************************************************************)
(* src/src/pii.py: redact.  A hit is <<kind, <<start, end>>, value>>.      *)
(***************************************************************************)
\* re.sub(r"\D", "", value)
DigitsOnly(value) == LET IsDigit(c) == c \in Digits IN SelectSeq(value, IsDigit)

\* the index of the first "@" of value, 0 when there is none
RECURSIVE FirstAt(_, _)
FirstAt(value, i) ==
    IF i > Len(value) THEN 0
    ELSE IF value[i] = "@" THEN i ELSE FirstAt(value, i + 1)

\* value[-n:]
LastChars(value, n) ==
    IF Len(value) <= n THEN value ELSE SubSeq(value, Len(value) - n + 1, Len(value))

Stars(n) == [i \in 1..n |-> "*"]

\* what redact appends for one hit (nothing for a kind it does not know)
Mask(kind, value) ==
    CASE kind = "EMAIL" ->
           LET at == FirstAt(value, 1)
               local_part == IF at = 0 THEN value ELSE SubSeq(value, 1, at - 1)
               domain == IF at = 0 THEN <<>> ELSE SubSeq(value, at + 1, Len(value))
           IN SubSeq(local_part, 1, IF Len(local_part) < 2 THEN Len(local_part) ELSE 2)
                  \o <<"*","*","*","@">> \o domain
      [] kind = "PHONE" ->
           LET digits == DigitsOnly(value)
           IN IF Len(digits) > 4
              THEN <<"+">> \o Stars(Len(digits) - 4) \o LastChars(digits, 2)
              ELSE <<"+","*","*","*","*","*","*">>
      [] kind = "CARD" -> <<"*","*","*","*"," ","*","*","*","*"," ","*","*","*","*"," ">> \o LastChars(value, 4)
      [] OTHER -> <<>>

\* sorted(hits, key=lambda x: x[1][0]): stable, ascending by start
RECURSIVE InsertByStart(_, _)
InsertByStart(sorted, h) ==
    IF sorted = <<>> THEN <<h>>
    ELSE IF sorted[Len(sorted)][2][1] <= h[2][1] THEN Append(sorted, h)
    ELSE Append(InsertByStart(SubSeq(sorted, 1, Len(sorted) - 1), h), sorted[Len(sorted)])

RECURSIVE SortedByStart(_)
SortedByStart(hits) ==
    IF hits = <<>> THEN <<>>
    ELSE InsertByStart(SortedByStart(SubSeq(hits, 1, Len(hits) - 1)), hits[Len(hits)])

\* the loop of redact over hits[i..], with the parts joined so far and last_index
RECURSIVE RedactLoop(_, _, _, _, _)
RedactLoop(text, hits, i, parts, last_index) ==
    IF i > Len(hits) THEN parts \o Slice(text, last_index, Len(text))
    ELSE LET h == hits[i]
         IN RedactLoop(text, hits, i + 1,
                       parts \o Slice(text, last_index, h[2][1]) \o Mask(h[1], h[3]),
                       h[2][2])

\* redact that walks the hits in the order given
redact_Unsorted(text, hits) ==
    IF hits = <<>> THEN text
    ELSE RedactLoop(text, hits, 1, <<>>, 0)

redact(text, hits) ==
    IF hits = <<>> THEN text
    ELSE RedactLoop(text, SortedByStart(hits), 1, <<>>, 0)

(***************************************************************************)
(* Inputs of redact: a text of up to MaxRedactLen distinct characters and  *)
(* up to MaxHits hits, in any order, each with a non-empty span of the     *)
(* text and one of HitValues.                                              *)
(***************************************************************************)
MaxRedactLen == 3
MaxHits == 2

RedactChars == <<"a","b","c","d","e","f","g","h">>
HitValues == { <<"EMAIL", <<"j","@","x",".","i","o">>>>, <<"PHONE", <<"+","1","4","1","5","5","5","5","2","6","7","1">>>>,
               <<"PHONE", <<"+","1","2","3">>>>, <<"CARD", <<"4","1","1","1","1","1","1","1","1","1","1","1","1","1","1","1">>>> }

HitsOn(n) == { <<kv[1], <<a, b>>, kv[2]>> : kv \in HitValues,
               a \in 0..(n - 1), b \in 1..n } 

RECURSIVE ListsUpTo(_, _)
ListsUpTo(H, n) ==
    IF n = 0 THEN {<<>>}
    ELSE LET shorter == ListsUpTo(H, n - 1)
         IN shorter \cup {Append(x, h) : x \in shorter, h \in H}

InitRedact ==
    /\ pc = "call"
    /\ \E n \in 0..MaxRedactLen :
          \E hits \in ListsUpTo({h \in HitsOn(n) : h[2][1] < h[2][2]}, MaxHits) :
             args = [text |-> SubSeq(RedactChars, 1, n), hits |-> hits]
    /\ ret = <<>>
    /\ phonenumbers = "None"
    /\ AppIdle

CallRedact ==
    /\ pc = "call"
    /\ ret' = redact(args.text, args.hits)
    /\ pc' = "done"
    /\ UNCHANGED <<args, others>>

NextRedact == CallRedact

SpecRedact == InitRedact /\ [][NextRedact]_vars

(***************************************************************************)
(* Claims about redact (SpecRedact).                                       *)
(***************************************************************************)
\* half-open intersection of two spans
SpansIntersect(x, y) == ~(x[2] <= y[1] \/ x[1] >= y[2])

PairwiseDisjoint(hits) ==
    \A i, j \in DOMAIN hits : i # j => ~SpansIntersect(hits[i][2], hits[j][2])

\* the masks of section 4.5, written out for HitValues
ExpectedMask(h) ==
    CASE h[3] = <<"j","@","x",".","i","o">> -> <<"j","*","*","*","@","x",".","i","o">>
      [] h[3] = <<"+","1","4","1","5","5","5","5","2","6","7","1">> -> <<"+","*","*","*","*","*","*","*","7","1">>
      [] h[3] = <<"+","1","2","3">> -> <<"+","*","*","*","*","*","*">>
      [] h[3] = <<"4","1","1","1","1","1","1","1","1","1","1","1","1","1","1","1">> -> <<"*","*","*","*"," ","*","*","*","*"," ","*","*","*","*"," ","1","1","1","1">>

\* The text rewritten offset by offset: at the first offset of a hit of H its mask,
\* at every other offset of a hit nothing, elsewhere the character itself.
RECURSIVE Rewritten(_, _, _)
Rewritten(text, H, p) ==
    IF p >= Len(text) THEN <<>>
    ELSE (IF \E h \in H : h[2][1] = p
             THEN ExpectedMask(CHOOSE h \in H : h[2][1] = p)
          ELSE IF \E h \in H : h[2][1] < p /\ p < h[2][2] THEN <<>>
          ELSE <<text[p + 1]>>) \o Rewritten(text, H, p + 1)

Range(f) == {f[i] : i \in DOMAIN f}

\* C7: for pairwise non-overlapping hits in any list order, redact returns the text
\* with each hit's span replaced by the mask of its kind and every character outside
\* the spans copied in its original order; with no hits it returns the text.
C7_RedactDisjointHits ==
    (pc = "done" /\ PairwiseDisjoint(args.hits)) =>
        /\ ret = Rewritten(args.text, Range(args.hits), 0)
        /\ args.hits = <<>> => ret = args.text

\* two hits given in descending order of start, with text before, between and after
C7_Witness ==
    /\ pc = "done"
    /\ Len(args.hits) = 2 /\ PairwiseDisjoint(args.hits)
    /\ args.hits[1][2][1] > args.hits[2][2][2]
    /\ args.hits[1][1] = "EMAIL" /\ args.hits[2][1] = "CARD"
    /\ ret = <<"*","*","*","*"," ","*","*","*","*"," ","*","*","*","*"," ","1","1","1","1","b","j","*","*","*","@","x",".","i","o">>

\* The order section 4.5 prescribes for overlapping hits: by start, then by kind name.
KindRank(kind) == CASE kind = "CARD" -> 1 [] kind = "EMAIL" -> 2 [] kind = "PHONE" -> 3
Earlier(x, y) ==
    x[2][1] < y[2][1] \/ (x[2][1] = y[2][1] /\ KindRank(x[1]) < KindRank(y[1]))

\* A hit is kept unless it overlaps a kept hit that comes earlier in that order.
RECURSIVE Kept(_, _)
Kept(H, h) ==
    \A g \in H : (Earlier(g, h) /\ SpansIntersect(g[2], h[2])) => ~Kept(H, g)

\* C8: given overlapping hits, redact drops the later of two overlapping hits (by
\* start offset, then kind name): the output is the text rewritten with the kept hits
\* only, one mask per overlapped region and no character emitted twice.
C8_OverlapDropsLater ==
    (pc = "done" /\ ~PairwiseDisjoint(args.hits)
        /\ \A i, j \in DOMAIN args.hits :
              i # j => (Earlier(args.hits[i], args.hits[j]) \/ Earlier(args.hits[j], args.hits[i])))
    => ret = Rewritten(args.text, {h \in Range(args.hits) : Kept(Range(args.hits), h)}, 0)

(***************************************************************************)
(* src/src/pii.py: the patterns.  Each XxxEnd(s, i) is the end offset of   *)
(* the match re finds when it tries the pattern at offset i, -1 when there *)
(* is none.                                                                *)
(***************************************************************************)
\* the grave accent U+0060, as one character
TICK == "\\x60"

\* the number of characters of class C from offset p on
RECURSIVE Run(_, _, _)
Run(s, p, C) == IF p < Len(s) /\ s[p + 1] \in C THEN 1 + Run(s, p + 1, C) ELSE 0

\* the number of characters outside class C from offset p on
RECURSIVE RunNot(_, _, _)
RunNot(s, p, C) == IF p < Len(s) /\ s[p + 1] \notin C THEN 1 + RunNot(s, p + 1, C) ELSE 0

\* a literal under (?i)
LitAtI(s, p, l) ==
    /\ p + Len(l) <= Len(s)
    /\ \A k \in 1..Len(l) : LowerChar(s[p + k]) = l[k]

\* the least offset >= p at which the literal l starts, -1 when there is none
RECURSIVE Find(_, _, _)
Find(s, p, l) ==
    IF p + Len(l) > Len(s) THEN -1
    ELSE IF LitAt(s, p, l) THEN p ELSE Find(s, p + 1, l)

\* URL_RE = (?i)\b(?:https?://|www\.)\S+
UrlEnd(s, i) ==
    LET p == IF LitAtI(s, i, <<"h","t","t","p",":","/","/">>) THEN i + 7
             ELSE IF LitAtI(s, i, <<"h","t","t","p","s",":","/","/">>) THEN i + 8
             ELSE IF LitAtI(s, i, <<"w","w","w",".">>) THEN i + 4
             ELSE -1
    IN IF Boundary(s, i) /\ p # -1 /\ RunNot(s, p, Whitespace) >= 1
       THEN p + RunNot(s, p, Whitespace) ELSE -1

\* CODE_RE = ```.*?```|`[^`]*?`   (re.S)
CodeEnd(s, i) ==
    IF LitAt(s, i, <<TICK,TICK,TICK>>) /\ Find(s, i + 3, <<TICK,TICK,TICK>>) # -1
    THEN Find(s, i + 3, <<TICK,TICK,TICK>>) + 3
    ELSE IF LitAt(s, i, <<TICK>>) /\ Find(s, i + 1, <<TICK>>) # -1
    THEN Find(s, i + 1, <<TICK>>) + 1
    ELSE -1

\* [A-Z0-9\-] under (?i)
IdChars == Letters \cup Digits \cup {"-"}

\* \s*[A-Z0-9\-]{3,} at offset q
IdCodeEnd(s, q) ==
    LET q2 == q + Run(s, q, Whitespace)
    IN IF Run(s, q2, IdChars) >= 3 THEN q2 + Run(s, q2, IdChars) ELSE -1

\* [:#]?\s*[A-Z0-9\-]{3,} at offset p
IdTailEnd(s, p) ==
    IF p < Len(s) /\ s[p + 1] \in {":", "#"} /\ IdCodeEnd(s, p + 1) # -1
    THEN IdCodeEnd(s, p + 1)
    ELSE IdCodeEnd(s, p)

\* .{0,10} greedy at offset p, then the tail: the longest gap n that lets the tail match
RECURSIVE IdGapEnd(_, _, _)
IdGapEnd(s, p, n) ==
    IF n < 0 THEN -1
    ELSE IF IdTailEnd(s, p + n) # -1 THEN IdTailEnd(s, p + n)
    ELSE IdGapEnd(s, p, n - 1)

\* ID_HINT = (?i)\b(order|ticket|issue|id|ref)\b.{0,10}[:#]?\s*[A-Z0-9\-]{3,}
IdHintEnd(s, i) ==
    LET p == IF LitAtI(s, i, <<"o","r","d","e","r">>) /\ Boundary(s, i + 5) THEN i + 5
             ELSE IF LitAtI(s, i, <<"t","i","c","k","e","t">>) /\ Boundary(s, i + 6) THEN i + 6
             ELSE IF LitAtI(s, i, <<"i","s","s","u","e">>) /\ Boundary(s, i + 5) THEN i + 5
             ELSE IF LitAtI(s, i, <<"i","d">>) /\ Boundary(s, i + 2) THEN i + 2
             ELSE IF LitAtI(s, i, <<"r","e","f">>) /\ Boundary(s, i + 3) THEN i + 3
             ELSE -1
        dots == IF p = -1 THEN 0 ELSE RunNot(s, p, {"\n"})
    IN IF Boundary(s, i) /\ p # -1
       THEN IdGapEnd(s, p, IF dots > 10 THEN 10 ELSE dots)
       ELSE -1

\* [a-zA-Z0-9._%+\-] and [a-zA-Z0-9.\-]
LocalChars == Letters \cup Digits \cup {".", "_", "%", "+", "-"}
DomainChars == Letters \cup Digits \cup {".", "-"}

\* [a-zA-Z0-9.\-]+\.[A-Za-z]{2,}\b at offset d with the first part m characters long:
\* the longest m that lets the rest match
RECURSIVE DomainEnd(_, _, _)
DomainEnd(s, d, m) ==
    IF m < 1 THEN -1
    ELSE LET tld == d + m + 1
             n == Run(s, tld, Letters)
         IN IF d + m < Len(s) /\ s[d + m + 1] = "." /\ n >= 2 /\ Boundary(s, tld + n)
            THEN tld + n
            ELSE DomainEnd(s, d, m - 1)

\* EMAIL_RE = \b[a-zA-Z0-9._%+\-]+@[a-zA-Z0-9.\-]+\.[A-Za-z]{2,}\b
EmailEnd(s, i) ==
    LET at == i + Run(s, i, LocalChars)
    IN IF Boundary(s, i) /\ at > i /\ at < Len(s) /\ s[at + 1] = "@"
       THEN DomainEnd(s, at + 1, Run(s, at + 1, DomainChars))
       ELSE -1

\* [0-9()\-.\s]
PhoneChars == Digits \cup Whitespace \cup {"(", ")", "-", "."}

\* \+?[0-9()\-.\s]{7,}
PhoneEnd(s, i) ==
    LET p == IF s[i + 1] = "+" THEN i + 1 ELSE i
    IN IF Run(s, p, PhoneChars) >= 7 THEN p + Run(s, p, PhoneChars) ELSE -1

\* (?:\d[ -]*?){m,19}\b with k - 1 groups matched so far and group k starting at
\* offset p: the digit, then as few separators as let the rest match; the rest is
\* one more group if there can be one, else the \b
RECURSIVE CardGroup(_, _, _)
RECURSIVE CardSeps(_, _, _)
CardGroup(s, p, k) ==
    IF p < Len(s) /\ s[p + 1] \in Digits THEN CardSeps(s, p + 1, k) ELSE -1
CardSeps(s, q, k) ==
    LET more == IF k < 19 THEN CardGroup(s, q, k + 1) ELSE -1
    IN IF more # -1 THEN more
       ELSE IF k >= 13 /\ Boundary(s, q) THEN q
       ELSE IF q < Len(s) /\ s[q + 1] \in {" ", "-"} THEN CardSeps(s, q + 1, k)
       ELSE -1

\* CARD_RE = \b(?:\d[ -]*?){13,19}\b
CardEnd(s, i) == IF Boundary(s, i) THEN CardGroup(s, i, 1) ELSE -1

\* pattern.match(s, i): the end of the match of the pattern at offset i, or -1
MatchEnd(pattern, s, i) ==
    CASE pattern = "URL_RE" -> UrlEnd(s, i)
      [] pattern = "CODE_RE" -> CodeEnd(s, i)
      [] pattern = "ID_HINT" -> IdHintEnd(s, i)
      [] pattern = "EMAIL_RE" -> EmailEnd(s, i)
      [] pattern = "PHONE_RE" -> PhoneEnd(s, i)
      [] pattern = "CARD_RE" -> CardEnd(s, i)

\* pattern.finditer(s): the spans of the successive matches, from offset pos on
RECURSIVE FindIter(_, _, _)
FindIter(pattern, s, pos) ==
    IF pos >= Len(s) THEN <<>>
    ELSE LET e == MatchEnd(pattern, s, pos)
         IN IF e = -1 THEN FindIter(pattern, s, pos + 1)
            ELSE <<<<pos, e>>>> \o FindIter(pattern, s, e)

(***************************************************************************)
(* src/src/pii.py: _overlaps, _luhn_ok, detect_pii                         *)
(***************************************************************************)
_overlaps(span, spans_to_check) ==
    \E i \in DOMAIN spans_to_check :
        ~(span[2] <= spans_to_check[i][1] \/ span[1] >= spans_to_check[i][2])

DigitValue(c) ==
    CASE c = "0" -> 0 [] c = "1" -> 1 [] c = "2" -> 2 [] c = "3" -> 3 [] c = "4" -> 4
      [] c = "5" -> 5 [] c = "6" -> 6 [] c = "7" -> 7 [] c = "8" -> 8 [] c = "9" -> 9

\* the loop of _luhn_ok over digits[::-1], from index k down
RECURSIVE LuhnSum(_, _, _)
LuhnSum(digits, k, is_alt) ==
    IF k = 0 THEN 0
    ELSE LET d == DigitValue(digits[k])
             d2 == IF is_alt THEN (IF d * 2 > 9 THEN d * 2 - 9 ELSE d * 2) ELSE d
         IN d2 + LuhnSum(digits, k - 1, ~is_alt)

\* the checksum that doubles from the rightmost digit on
_luhn_ok_DoubleRightmost(card_number) ==
    LET digits == DigitsOnly(card_number)
    IN IF ~(13 <= Len(digits) /\ Len(digits) <= 19) THEN FALSE
       ELSE LuhnSum(digits, Len(digits), TRUE) % 10 = 0

_luhn_ok(card_number) ==
    LET digits == DigitsOnly(card_number)
    IN IF ~(13 <= Len(digits) /\ Len(digits) <= 19) THEN FALSE
       ELSE LuhnSum(digits, Len(digits), FALSE) % 10 = 0

guarded_spans(text) ==
    FindIter("URL_RE", text, 0) \o FindIter("CODE_RE", text, 0) \o FindIter("ID_HINT", text, 0)

\* step 2: the EMAIL hits among spans[i..]
RECURSIVE EmailHits(_, _, _, _)
EmailHits(text, spans, i, guards) ==
    IF i > Len(spans) THEN <<>>
    ELSE (IF ~_overlaps(spans[i], guards)
          THEN <<<<"EMAIL", spans[i], Slice(text, spans[i][1], spans[i][2])>>>>
          ELSE <<>>) \o EmailHits(text, spans, i + 1, guards)

\* step 3: the PHONE hits among spans[i..]; a candidate the library accepts is
\* formatted as "+" and its digits
RECURSIVE PhoneHits(_, _, _, _)
PhoneHits(text, spans, i, guards) ==
    IF i > Len(spans) THEN <<>>
    ELSE (IF ~_overlaps(spans[i], guards) /\ phonenumbers = "accepts"
          THEN <<<<"PHONE", spans[i],
                   <<"+">> \o DigitsOnly(Slice(text, spans[i][1], spans[i][2]))>>>>
          ELSE <<>>) \o PhoneHits(text, spans, i + 1, guards)

\* step 4: the CARD hits among spans[i..]
RECURSIVE CardHits(_, _, _, _)
CardHits(text, spans, i, guards) ==
    IF i > Len(spans) THEN <<>>
    ELSE LET digits_only == DigitsOnly(Slice(text, spans[i][1], spans[i][2]))
         IN (IF ~_overlaps(spans[i], guards) /\ _luhn_ok(digits_only)
             THEN <<<<"CARD", spans[i], digits_only>>>>
             ELSE <<>>) \o CardHits(text, spans, i + 1, guards)

\* detect_pii with the card candidates not checked against the guarded spans
detect_pii_CardUnguarded(text) ==
    LET guards == guarded_spans(text)
    IN EmailHits(text, FindIter("EMAIL_RE", text, 0), 1, guards)
       \o (IF phonenumbers # "None"
           THEN PhoneHits(text, FindIter("PHONE_RE", text, 0), 1, guards) ELSE <<>>)
       \o CardHits(text, FindIter("CARD_RE", text, 0), 1, <<>>)

detect_pii(text) ==
    LET guards == guarded_spans(text)
    IN EmailHits(text, FindIter("EMAIL_RE", text, 0), 1, guards)
       \o (IF phonenumbers # "None"
           THEN PhoneHits(text, FindIter("PHONE_RE", text, 0), 1, guards) ELSE <<>>)
       \o CardHits(text, FindIter("CARD_RE", text, 0), 1, guards)

(***************************************************************************)
(* Inputs of detect_pii: up to MaxPieces pieces written one after another. *)
(***************************************************************************)
MaxPieces == 3

PiiPieces == {
    <<"4","2","2","2","2","2","2","2","2","2","2","2","2">>, <<"4","2","2","2","2","2","2","2","2","2","2","2","3">>, <<TICK,"4","2","2","2","2","2","2","2","2","2","2","2","2",TICK>>, <<TICK>>, <<" ">>,
    <<"j","@","x",".","i","o">>, <<"w","w","w",".">>, <<"i","d",":">> }

RECURSIVE Concatenated(_, _)
Concatenated(P, n) ==
    IF n = 0 THEN {<<>>}
    ELSE LET shorter == Concatenated(P, n - 1)
         IN shorter \cup {a \o b : a \in shorter, b \in P}

InitDetect ==
    /\ pc = "call"
    /\ args \in [text : Concatenated(PiiPieces, MaxPieces)]
    /\ ret = <<>>
    /\ phonenumbers \in {"None", "accepts", "rejects"}
    /\ AppIdle

CallDetectPii ==
    /\ pc = "call"
    /\ ret' = detect_pii(args.text)
    /\ pc' = "done"
    /\ UNCHANGED <<args, others>>

NextDetect == CallDetectPii

SpecDetect == InitDetect /\ [][NextDetect]_vars

(***************************************************************************)
(* Claims about detect_pii (SpecDetect).                                   *)
(***************************************************************************)
\* two spans have an offset in common
SharesOffset(x, y) == \E k \in x[1]..(x[2] - 1) : y[1] <= k /\ k < y[2]

Guards == Range(guarded_spans(args.text))
Unguarded(span) == \A g \in Guards : ~SharesOffset(span, g)
IsHit(kind, span) == \E i \in DOMAIN ret : ret[i][1] = kind /\ ret[i][2] = span

\* the card candidates of the text, and those that pass the Luhn check
CardCandidates == Range(FindIter("CARD_RE", args.text, 0))
LuhnCandidates ==
    {c \in CardCandidates : _luhn_ok(DigitsOnly(Slice(args.text, c[1], c[2])))}

\* C9: no hit detect_pii returns, of any kind, has an offset in common with a guarded
\* span (URL, code span, ID hint), so a card candidate inside a code span is never a
\* hit; and a candidate that has no offset in common with any guard, also one that
\* touches a guard at an endpoint, is not suppressed.
C9_GuardedSuppression ==
    pc = "done" =>
        /\ \A i \in DOMAIN ret : ret[i][1] \in {"EMAIL", "PHONE", "CARD"} /\ Unguarded(ret[i][2])
        /\ \A c \in Range(FindIter("EMAIL_RE", args.text, 0)) :
              Unguarded(c) => IsHit("EMAIL", c)
        /\ \A c \in Range(FindIter("PHONE_RE", args.text, 0)) :
              (Unguarded(c) /\ phonenumbers = "accepts") => IsHit("PHONE", c)
        /\ \A c \in LuhnCandidates : Unguarded(c) => IsHit("CARD", c)

\* an e-mail hit that ends where a code span starts, and inside that code span a
\* card candidate that passes Luhn and is no hit
C9_Witness ==
    /\ pc = "done"
    /\ \E g \in Guards :
          /\ \E i \in DOMAIN ret : ret[i][1] = "EMAIL" /\ ret[i][2][2] = g[1]
          /\ \E c \in LuhnCandidates :
                g[1] < c[1] /\ c[2] < g[2] /\ ~IsHit("CARD", c)

\* a card hit that starts where a guarded span ends
C9_WitnessCardTouches ==
    /\ pc = "done"
    /\ \E g \in Guards : \E i \in DOMAIN ret : ret[i][1] = "CARD" /\ ret[i][2][1] = g[2]

(***************************************************************************)
(* src/app_streamlit.py: score_comment_cascade.  The classifiers are       *)
(* outside the repository: o says what they answer for this comment, the   *)
(* baseline's o.prob_lr, the secondary's o.prob_raw and the calibrator     *)
(* o.iso, each probability being RAISE when the invocation fails.          *)
(***************************************************************************)
RAISE == -1
LR_GRAY_LOW == 10
LR_GRAY_HIGH == 60

\* text.strip()
RECURSIVE LStrip(_)
LStrip(s) == IF s # <<>> /\ Head(s) \in Whitespace THEN LStrip(Tail(s)) ELSE s
RECURSIVE RStrip(_)
RStrip(s) ==
    IF s # <<>> /\ s[Len(s)] \in Whitespace THEN RStrip(SubSeq(s, 1, Len(s) - 1)) ELSE s
Strip(s) == RStrip(LStrip(s))

\* the gray zone with its upper end included
InGrayZone_Closed(prob_lr) == LR_GRAY_LOW <= prob_lr /\ prob_lr <= LR_GRAY_HIGH

\* LR_GRAY_LOW <= prob_lr < LR_GRAY_HIGH
InGrayZone(prob_lr) == LR_GRAY_LOW <= prob_lr /\ prob_lr < LR_GRAY_HIGH

\* the tier policy with strict comparisons
initial_tier_Strict(prob_final) ==
    IF prob_final > POLICY.high THEN "HIGH"
    ELSE IF prob_final > POLICY.medium THEN "MEDIUM"
    ELSE IF prob_final > POLICY.low THEN "LOW" ELSE "VERY_LOW"

initial_tier(prob_final) ==
    IF prob_final >= POLICY.high THEN "HIGH"
    ELSE IF prob_final >= POLICY.medium THEN "MEDIUM"
    ELSE IF prob_final >= POLICY.low THEN "LOW" ELSE "VERY_LOW"

NoResult == [prob_final |-> 0, tier |-> "", pii_hits |-> <<>>, redacted |-> <<>>,
             escalated_to_bert |-> FALSE]

\* the dict of the return statement
ResultDict(text, overridden, pii_hits, escalated) ==
    [prob_final |-> overridden[1], tier |-> overridden[2],
     pii_hits |-> [i \in DOMAIN pii_hits |-> <<pii_hits[i][1], pii_hits[i][3]>>],
     redacted |-> redact(text, pii_hits),
     escalated_to_bert |-> escalated]

\* the comment once normalized: the classifiers, the tier policy, the overrides and
\* the PII pass
ScoreNormalized(text, text_norm, o, escalated) ==
    IF o.prob_lr = RAISE
    THEN [raised |-> TRUE, result |-> NoResult,
          predict_proba |-> <<text_norm>>, bert_model |-> <<>>, apply_overrides |-> <<>>]
    ELSE IF escalated /\ o.prob_raw = RAISE
    THEN [raised |-> TRUE, result |-> NoResult,
          predict_proba |-> <<text_norm>>, bert_model |-> <<text_norm>>,
          apply_overrides |-> <<>>]
    ELSE
    LET prob_final == IF escalated THEN o.iso[o.prob_raw] ELSE o.prob_lr
    IN [raised |-> FALSE,
        result |-> ResultDict(text, apply_overrides(text, prob_final, initial_tier(prob_final)),
                              detect_pii(text), escalated),
        predict_proba |-> <<text_norm>>,
        bert_model |-> IF escalated THEN <<text_norm>> ELSE <<>>,
        apply_overrides |-> <<<<text, prob_final, initial_tier(prob_final)>>>>]

\* What a call returns, [raised |-> FALSE, result |-> the dict], or that it raised;
\* with the calls it made: the texts given to the baseline and to the secondary
\* classifier and the arguments of apply_overrides.
score_comment_cascade(text, o) ==
    IF Strip(text) = <<>>
    THEN [raised |-> FALSE,
          result |-> [prob_final |-> 0, tier |-> "VERY_LOW", pii_hits |-> <<>>,
                      redacted |-> text, escalated_to_bert |-> FALSE],
          predict_proba |-> <<>>, bert_model |-> <<>>, apply_overrides |-> <<>>]
    ELSE ScoreNormalized(text, normalize_text(text), o,
                         has_bert /\ InGrayZone(o.prob_lr))

(***************************************************************************)
(* Inputs of score_comment_cascade: the comments the page proposes, a      *)
(* blank one and one with an e-mail address; thresholds and probabilities  *)
(* around the gray zone and around each other.                             *)
(***************************************************************************)
SampleComments == {
    <<"H","a","v","e"," ","a"," ","n","i","c","e"," ","d","a","y","!">>, <<"y","o","u"," ","k","i","l","l","e","d"," ","m","y"," ","p","l","a","n","t">>, <<"i"," ","w","i","s","h"," ","h","e"," ","d","i","e","s"," ","o","n"," ","t","h","e"," ","f","i","e","l","d"," ","n","a","k","e","d">>,
    <<"s","c","h","o","o","l"," ","a","d","v","i","s","e","d"," ","p","u","p","i","l","s"," ","n","o","t"," ","t","o"," ","u","s","e"," ","w","o","r","d","s"," ","l","i","k","e"," ","b","i","t","c","h",",","f","u","c","k">>,
    <<" "," ">>, <<"m","a","i","l"," ","j","@","x",".","i","o">> }

Thresholds == {0, 30, 60, 90}
Policies == {pol \in [high : Thresholds, medium : Thresholds, low : Thresholds] :
                pol.high > pol.medium /\ pol.medium > pol.low}

BaselineProbs == {0, 9, 10, 30, 59, 60, 89, 90}
RawProbs == {20, 70}
\* monotonic calibrators
Calibrators == { (20 :> 29) @@ (70 :> 30), (20 :> 30) @@ (70 :> 60), (20 :> 90) @@ (70 :> 90) }
Oracles == [prob_lr : BaselineProbs \cup {RAISE}, prob_raw : RawProbs \cup {RAISE},
            iso : Calibrators]

InitCascade ==
    /\ pc = "call"
    /\ args \in [text : SampleComments, o : Oracles]
    /\ ret = <<>>
    /\ phonenumbers = "None"
    /\ has_bert \in BOOLEAN
    /\ POLICY \in Policies
    /\ comments = <<>>
    /\ oracle = <<>>
    /\ results = <<>>

CallScoreCommentCascade ==
    /\ pc = "call"
    /\ ret' = score_comment_cascade(args.text, args.o)
    /\ pc' = "done"
    /\ UNCHANGED <<args, others>>

NextCascade == CallScoreCommentCascade

SpecCascade == InitCascade /\ [][NextCascade]_vars

\* C4: on non-empty text whose baseline classifier answers, the secondary classifier
\* is invoked, and escalated_to_bert is true, if and only if has_bert holds and
\* 0.10 <= p_base < 0.60; the probability given to the tier policy is the calibrated
\* secondary probability when escalated and p_base otherwise.
C4_EscalationGate ==
    (pc = "done" /\ Strip(args.text) # <<>> /\ args.o.prob_lr # RAISE) =>
        LET p_base == args.o.prob_lr
            gate == has_bert /\ 10 <= p_base /\ p_base < 60
        IN /\ (ret.bert_model # <<>>) <=> gate
           /\ ~ret.raised =>
                /\ ret.result.escalated_to_bert <=> gate
                /\ ret.apply_overrides[1][2] =
                       IF gate THEN args.o.iso[args.o.prob_raw] ELSE p_base

\* a baseline probability of exactly 0.10 escalated, and the tier policy got the
\* calibrated probability, which differs from the raw one and from p_base
C4_Witness ==
    /\ pc = "done" /\ has_bert /\ args.o.prob_lr = 10 /\ ~ret.raised
    /\ ret.bert_model # <<>> /\ ret.result.escalated_to_bert
    /\ ret.apply_overrides[1][2] = 29 /\ args.o.prob_raw = 20

\* a baseline probability of exactly 0.60 with a secondary classifier configured
C4_WitnessUpper ==
    /\ pc = "done" /\ Strip(args.text) # <<>>
    /\ has_bert /\ args.o.prob_lr = 60 /\ ~ret.raised
    /\ ret.bert_model = <<>> /\ ~ret.result.escalated_to_bert
    /\ ret.apply_overrides[1][2] = 60

\* C5: the tier handed to apply_overrides is HIGH if p_final >= high, else MEDIUM if
\* p_final >= medium, else LOW if p_final >= low, else VERY_LOW, and the result is
\* what apply_overrides makes of that probability and that tier.
C5_TierPolicy ==
    (/\ pc = "done" /\ ret.apply_overrides # <<>>
     /\ POLICY.high > POLICY.medium /\ POLICY.medium > POLICY.low /\ POLICY.low >= 0) =>
        LET call == ret.apply_overrides[1]
            p_final == call[2]
            tier == call[3]
            overridden == apply_overrides(args.text, p_final, tier)
        IN /\ tier = "HIGH" <=> p_final >= POLICY.high
           /\ tier = "MEDIUM" <=> (p_final >= POLICY.medium /\ p_final < POLICY.high)
           /\ tier = "LOW" <=> (p_final >= POLICY.low /\ p_final < POLICY.medium)
           /\ tier = "VERY_LOW" <=> p_final < POLICY.low
           /\ call[1] = args.text
           /\ ret.result.prob_final = overridden[1]
           /\ ret.result.tier = overridden[2]

\* a probability equal to the medium threshold got MEDIUM, which let the general
\* safelist override the comment
C5_Witness ==
    /\ pc = "done" /\ ret.apply_overrides # <<>>
    /\ ret.apply_overrides[1][2] = POLICY.medium
    /\ ret.apply_overrides[1][3] = "MEDIUM"
    /\ ret.result.tier = "OVERRIDE_SAFE"

\* a probability equal to the low threshold, and one equal to the high threshold
C5_WitnessLow ==
    /\ pc = "done" /\ ret.apply_overrides # <<>>
    /\ ret.apply_overrides[1][2] = POLICY.low /\ POLICY.low > 0
    /\ ret.result.tier = "LOW"
C5_WitnessHigh ==
    /\ pc = "done" /\ ret.apply_overrides # <<>>
    /\ ret.apply_overrides[1][2] = POLICY.high
    /\ ret.result.tier = "HIGH"

(***************************************************************************)
(* src/app_streamlit.py: the Analyze button.  A run of the script splits   *)
(* the input into comments and scores them one after the other in a list   *)
(* comprehension; results is bound when the comprehension has finished.    *)
(* An exception of score_comment_cascade leaves the comprehension and      *)
(* ends the run of the script.                                             *)
(***************************************************************************)
MaxLines == 2
InputLines == { <<" ">>, <<"H","a","v","e"," ","a"," ","n","i","c","e"," ","d","a","y","!">>, <<" ","y","o","u"," ","k","i","l","l","e","d"," ","m","y"," ","p","l","a","n","t"," ">>, <<"m","a","i","l"," ","j","@","x",".","i","o">> }
BatchOracles == {
    [prob_lr |-> 30, prob_raw |-> 70, iso |-> (20 :> 30) @@ (70 :> 60)],
    [prob_lr |-> 90, prob_raw |-> 70, iso |-> (20 :> 30) @@ (70 :> 60)],
    [prob_lr |-> 30, prob_raw |-> RAISE, iso |-> (20 :> 30) @@ (70 :> 60)],
    [prob_lr |-> RAISE, prob_raw |-> 70, iso |-> (20 :> 30) @@ (70 :> 60)] }

\* [c.strip() for c in lines if c.strip()]
RECURSIVE StrippedNonEmpty(_)
StrippedNonEmpty(lines) ==
    IF lines = <<>> THEN <<>>
    ELSE IF Strip(Head(lines)) = <<>> THEN StrippedNonEmpty(Tail(lines))
    ELSE <<Strip(Head(lines))>> \o StrippedNonEmpty(Tail(lines))

InitBatch ==
    /\ pc = "idle"
    /\ args = <<>>
    /\ ret = <<>>
    /\ phonenumbers = "None"
    /\ has_bert \in BOOLEAN
    /\ POLICY = [high |-> 90, medium |-> 60, low |-> 30]
    /\ comments = <<>>
    /\ oracle = <<>>
    /\ results = <<>>

\* the button is pressed with at least one comment in the input
Analyze ==
    /\ pc \in {"idle", "warned", "shown", "raised"}
    /\ \E lines \in ListsUpTo(InputLines, MaxLines) :
         /\ StrippedNonEmpty(lines) # <<>>
         /\ comments' = StrippedNonEmpty(lines)
    /\ oracle' \in [DOMAIN comments' -> BatchOracles]
    /\ results' = <<>>
    /\ pc' = "scoring"
    /\ UNCHANGED <<args, ret, phonenumbers, has_bert, POLICY>>

\* the button is pressed with no comment in the input
AnalyzeNothing ==
    /\ pc \in {"idle", "warned", "shown", "raised"}
    /\ \E lines \in ListsUpTo(InputLines, MaxLines) : StrippedNonEmpty(lines) = <<>>
    /\ comments' = <<>>
    /\ oracle' = <<>>
    /\ results' = <<>>
    /\ pc' = "warned"
    /\ UNCHANGED <<args, ret, phonenumbers, has_bert, POLICY>>

\* one iteration of the comprehension
ScoreNext ==
    /\ pc = "scoring"
    /\ Len(results) < Len(comments)
    /\ \E scored \in {score_comment_cascade(comments[Len(results) + 1],
                                              oracle[Len(results) + 1])} :
         IF scored.raised
         THEN results' = <<>> /\ pc' = "raised"
         ELSE results' = Append(results, scored.result) /\ pc' = pc
    /\ UNCHANGED <<args, ret, phonenumbers, has_bert, POLICY, comments, oracle>>

\* the table of the results, one row per comment
Display ==
    /\ pc = "scoring"
    /\ Len(results) = Len(comments)
    /\ pc' = "shown"
    /\ UNCHANGED <<args, ret, phonenumbers, app>>

NextBatch == Analyze \/ AnalyzeNothing \/ ScoreNext \/ Display

SpecBatch == InitBatch /\ [][NextBatch]_vars

\* the classifier invocation fails for comment i of the batch
OracleFails(i) ==
    \/ oracle[i].prob_lr = RAISE
    \/ has_bert /\ 10 <= oracle[i].prob_lr /\ oracle[i].prob_lr < 60
         /\ oracle[i].prob_raw = RAISE

\* C10: when the run of a batch has ended, every comment whose classifier invocation
\* did not fail has its own result, whatever happened to the other comments, and a
\* comment whose invocation failed has no tier.
C10_FailureDoesNotAbortSiblings ==
    pc \in {"shown", "raised"} =>
        \A i \in DOMAIN comments :
            IF OracleFails(i)
            THEN i \in DOMAIN results => results[i].tier \notin OverrideTiers
            ELSE /\ i \in DOMAIN results
                 /\ results[i] = score_comment_cascade(comments[i], oracle[i]).result

(***************************************************************************)
(* src/src/pii.py: _luhn_ok, called on its own and then by detect_pii on   *)
(* the same string.  The strings are digit runs of 11 to 19 digits, one of *)
(* them with separators, followed by up to MaxTail more characters.        *)
(***************************************************************************)
MaxTail == 2
LuhnStems == {
    <<"4","1","1","1","1","1","1","1","1","1","1">>, <<"7","9","9","2","7","3","9","8","7","1","3">>, <<"4","1","1","1","1","1","1","1","1","1","1","1","1">>, <<"4","1","1","1","1","1","1","1","1","1","1","1","1","1","1">>,
    <<"4","1","1","1","-","1","1","1","1"," ","1","1","1","1","-","1","1","1">>, <<"4","1","1","1","1","1","1","1","1","1","1","1","1","1","1","1","1">>, <<"4","1","1","1","1","1","1","1","1","1","1","1","1","1","1","1","1","1","1">> }
LuhnChars == {"1", "2", "5", "9", "-", "a"}

InitLuhn ==
    /\ pc = "call"
    /\ args \in [card_number : {stem \o tail : stem \in LuhnStems,
                                               tail \in StringsUpTo(LuhnChars, MaxTail)}]
    /\ ret = <<>>
    /\ phonenumbers \in {"None", "accepts", "rejects"}
    /\ AppIdle

CallLuhnOk ==
    /\ pc = "call"
    /\ ret' = _luhn_ok(args.card_number)
    /\ pc' = "done"
    /\ UNCHANGED <<args, others>>

\* detect_pii on the same string; ret keeps the answer of _luhn_ok beside the hits
CallDetectPiiOnCard ==
    /\ pc = "done"
    /\ ret' = <<ret, detect_pii(args.card_number)>>
    /\ pc' = "detected"
    /\ UNCHANGED <<args, others>>

NextLuhn == CallLuhnOk \/ CallDetectPiiOnCard

SpecLuhn == InitLuhn /\ [][NextLuhn]_vars

\* the digits of a string, in order
OnlyDigits(str) == LET Keep(c) == c \in {"0", "1", "2", "3", "4", "5", "6", "7", "8", "9"}
                   IN SelectSeq(str, Keep)

\* the value of a digit character
ValueOf(c) == CHOOSE v \in 0..9 : ToString(v) = c

\* the standard Luhn sum of the j rightmost digits: the digits at even positions
\* counted from the right are doubled, and a doubled value above 9 loses 9
RECURSIVE StandardLuhnSum(_, _)
StandardLuhnSum(ds, j) ==
    IF j = 0 THEN 0
    ELSE LET v == ValueOf(ds[Len(ds) - j + 1])
             term == IF j % 2 = 1 THEN v
                     ELSE IF 2 * v > 9 THEN 2 * v - 9 ELSE 2 * v
         IN term + StandardLuhnSum(ds, j - 1)

PassesLuhn(str) ==
    LET ds == OnlyDigits(str)
    IN Len(ds) \in 13..19 /\ StandardLuhnSum(ds, Len(ds)) % 10 = 0

\* C11: _luhn_ok returns true exactly when its input, stripped of non-digits, has 13
\* to 19 digits and the standard Luhn sum is divisible by 10; 4111111111111111 passes
\* and 4111111111111112 fails; every CARD hit of detect_pii is a candidate that passes,
\* and its value is the digits of the candidate.
C11_LuhnOk ==
    /\ pc = "done" =>
          /\ ret <=> PassesLuhn(args.card_number)
          /\ args.card_number = <<"4","1","1","1","1","1","1","1","1","1","1","1","1","1","1","1">> => ret
          /\ args.card_number = <<"4","1","1","1","1","1","1","1","1","1","1","1","1","1","1","2">> => ~ret
    /\ pc = "detected" =>
          \A i \in DOMAIN ret[2] :
              ret[2][i][1] = "CARD" =>
                  LET candidate == Slice(args.card_number, ret[2][i][2][1], ret[2][i][2][2])
                  IN /\ PassesLuhn(candidate)
                     /\ ret[2][i][3] = OnlyDigits(candidate)

\* 4111111111111111 passed and became a CARD hit
C11_Witness ==
    /\ pc = "detected"
    /\ args.card_number = <<"4","1","1","1","1","1","1","1","1","1","1","1","1","1","1","1">>
    /\ ret[1]
    /\ \E i \in DOMAIN ret[2] : ret[2][i][1] = "CARD"

\* 4111111111111112 failed and is no CARD hit
C11_WitnessFails ==
    /\ pc = "detected"
    /\ args.card_number = <<"4","1","1","1","1","1","1","1","1","1","1","1","1","1","1","2">>
    /\ ~ret[1]
    /\ \A i \in DOMAIN ret[2] : ret[2][i][1] # "CARD"

====
